---- MODULE Spec2Model ----
(***************************************************************************)
(* StrSafe: a length-tracked, NUL-terminated growable byte string and the  *)
(* operations of the strsafe_ / cstr_ API on it.                           *)
(*                                                                         *)
(* One StrSafe object `s` is driven from strsafe_init through arbitrary    *)
(* sequences of API calls.  Memory is modelled byte by byte: a block is a  *)
(* sequence of bytes whose length is the size of the allocation, bytes of  *)
(* fresh memory are indeterminate (IND) until written and take arbitrary   *)
(* values when the call returns, every allocation may fail, and an access  *)
(* that leaves its block (or goes through a null / released pointer) is    *)
(* recorded in `fault`: from there on the behaviour of the program is      *)
(* undefined and the run is not continued.                                 *)
(*                                                                         *)
(* `last` is a history variable: a run may trace one call (its arguments,  *)
(* the string before the call and what the call returned) and ends there;  *)
(* untraced calls only move the string.  Every transition of the string    *)
(* therefore also shows up as a traced state.                              *)
(*                                                                         *)
(* Two smaller specifications share the operators: SpecOld applies the     *)
(* str_ functions of the older header src/StrSafe.h once to a string its   *)
(* constructors leave, and SpecOwn keeps a source, a destination and the   *)
(* array of a split in one heap of addressed blocks (`heap`, `source`,     *)
(* `dest`, `parts`), so that who owns which buffer can be stated.          *)
(***************************************************************************)
EXTENDS Integers, Sequences, FiniteSets, TLC

VARIABLES s, fault, last, heap, source, dest, parts

vars == <<s, fault, last, heap, source, dest, parts>>

\* the variables of the ownership model (SpecOwn), which the other two
\* specifications leave alone
own == <<heap, source, dest, parts>>

(***************************************************************************)
(* Bounds                                                                  *)
(***************************************************************************)
\* size_t is modelled SizeBits wide: arithmetic on sizes is modulo SizeMod
SizeMod == 65536
\* the allocator never grants a block larger than HeapMax bytes: contents of
\* up to four characters, so that "aabb" without "ab" is a content
HeapMax == 5
\* longest C string passed as an argument (needle, suffix, replacement ...)
MaxArg == 2
\* most suffixes passed to one appendv call
MaxVarargs == 2

SIZE_MAX == SizeMod - 1

\* x reduced to a size_t
Wrap(x) == x % SizeMod

\* 0 is the terminator, 1 and 2 stand for two ordinary characters ('a', 'b')
Chars == {1, 2}
Byte == {0} \cup Chars

\* the C strings of at most n characters (without their terminator)
StrUpTo(n) == UNION {[1..k -> Chars] : k \in 0..n}
Args == StrUpTo(MaxArg)
\* the replacement strings of replace and replace_all: runs of one character,
\* so that a replacement is shorter than, as long as or longer than what it
\* replaces, contains it or not, and completes a match with its neighbours
\* ("aab" with "ab" replaced by "b") or not
News == UNION {[1..k -> {2}] : k \in 0..MaxArg}
\* the argument lists of appendv: up to MaxVarargs suffixes of at most one
\* character, empty ones included
ArgLists == UNION {[1..k -> StrUpTo(1)] : k \in 1..MaxVarargs}

(***************************************************************************)
(* Pointers and blocks                                                     *)
(***************************************************************************)
\* the null pointer
NULL == <<-1>>
\* a pointer to a block that has been released
FREED == <<-2>>
\* result of a sequence of memory accesses one of which left its block
OOB == <<-3>>

IsBlock(d) == d \notin {NULL, FREED, OOB}

\* a byte of fresh memory that has not been written yet
IND == 3

\* whether the allocator can grant n bytes at all
Grantable(n) == n <= HeapMax

\* malloc(n) that succeeds
malloc(n) == [i \in 1..n |-> IND]

\* realloc(d, n) that succeeds: the old bytes that fit, then fresh bytes
Resize(d, n) ==
    LET old == IF IsBlock(d) THEN d ELSE <<>>
    IN  [i \in 1..n |-> IF i <= Len(old) THEN old[i] ELSE IND]

\* the positions of block d still indeterminate
IndAt(d) == IF IsBlock(d) THEN {i \in 1..Len(d) : d[i] = IND} ELSE {}

\* block d with its indeterminate bytes taking the values g gives them
Resolve(d, g) ==
    IF IsBlock(d) THEN [i \in 1..Len(d) |-> IF d[i] = IND THEN g[i] ELSE d[i]]
    ELSE d

\* memcpy / memmove(dst + doff, src + soff, n); src is read before dst is written
memcpy(dst, doff, src, soff, n) ==
    IF ~IsBlock(dst) \/ ~IsBlock(src) THEN OOB
    ELSE IF doff + n > Len(dst) \/ soff + n > Len(src) THEN OOB
    ELSE [i \in 1..Len(dst) |->
            IF i > doff /\ i <= doff + n THEN src[soff + i - doff] ELSE dst[i]]

\* dst[off] = b
store(dst, off, b) ==
    IF ~IsBlock(dst) THEN OOB
    ELSE IF off >= Len(dst) THEN OOB
    ELSE [i \in 1..Len(dst) |-> IF i = off + 1 THEN b ELSE dst[i]]

\* a C string argument as it lies in memory
Lit(a) == a \o <<0>>

\* offsets >= off of block d that hold a terminator
NulsFrom(d, off) == {k \in off..(Len(d) - 1) : d[k + 1] = 0}

SetMin(S) == CHOOSE x \in S : \A y \in S : x <= y

\* what reading a C string at d + off runs into: "none" when it is terminated
\* inside its block
ReadFault(d, off) ==
    IF d = NULL THEN "null"
    ELSE IF d = FREED THEN "freed"
    ELSE IF d = OOB THEN "bounds"
    ELSE IF NulsFrom(d, off) = {} THEN "bounds"
    ELSE "none"

\* strlen(d + off), for a string terminated inside its block
strlen(d, off) == SetMin(NulsFrom(d, off)) - off

\* the bytes of the C string at d + off, without the terminator
CStr(d, off) == [i \in 1..strlen(d, off) |-> d[off + i]]

\* whether needle lies at offset j of block d
MatchAt(d, j, needle) ==
    /\ j + Len(needle) <= Len(d)
    /\ \A k \in 1..Len(needle) : d[j + k] = needle[k]

\* strstr(d + off, needle): offset (from d) of the first occurrence inside the
\* C string at d + off, -1 for a null result
strstr(d, off, needle) ==
    LET end  == off + strlen(d, off)
        hits == {j \in off..end : j + Len(needle) <= end /\ MatchAt(d, j, needle)}
    IN  IF hits = {} THEN -1 ELSE SetMin(hits)

\* strncmp(d + off, x, n) == 0 for n == strlen(x): the comparison stops at the
\* first difference, so it never reads past the terminator of d + off
strncmp0(d, off, x) == MatchAt(d, off, x)

(***************************************************************************)
(* Results of a call                                                       *)
(***************************************************************************)
\* the string a call leaves, what it returns (pointer / true = 1, NULL /
\* false = 0, an offset, a count), whether an allocation failed in it, and the
\* array a split returned
Out(d, l, c, r) ==
    [data |-> d, len |-> l, cap |-> c, ret |-> r, fault |-> "none",
     oom |-> FALSE, parts |-> <<>>]

\* the call returns r and leaves str as it is
Keep(str, r) == Out(str.data, str.len, str.cap, r)

\* the call returns its failure value because an allocation failed
NoMem(str) == [Keep(str, 0) EXCEPT !.oom = TRUE]

\* the call runs into undefined behaviour of kind f
Fault(str, f) == [Keep(str, 0) EXCEPT !.fault = f]

Str(d, l, c) == [data |-> d, len |-> l, cap |-> c]

\* a StrSafe argument holding the C string a, as strsafe_set leaves it on a
\* freshly initialised string
AsStr(a) == Str(Lit(a), Len(a), Len(a) + 1)

(***************************************************************************)
(* Initialisation, release and capacity                                    *)
(***************************************************************************)
strsafe_init == Str(NULL, 0, 0)

strsafe_free(str) ==
    IF str.data = FREED THEN Fault(str, "freed")
    ELSE Out(NULL, 0, 0, 1)

\* strsafe_ensure_capacity assigning the result of realloc to data before
\* testing it: a failed growth loses the buffer
strsafe_ensure_capacity_lost(str, min_cap, ok) ==
    IF str.cap >= min_cap THEN Keep(str, 1)
    ELSE IF str.data = FREED THEN Fault(str, "freed")
    ELSE IF ~(ok /\ Grantable(min_cap)) THEN [NoMem(str) EXCEPT !.data = NULL]
    ELSE Out(Resize(str.data, min_cap), str.len, min_cap, 1)

strsafe_ensure_capacity(str, min_cap, ok) ==
    IF str.cap >= min_cap THEN Keep(str, 1)
    ELSE IF str.data = FREED THEN Fault(str, "freed")
    ELSE IF ~(ok /\ Grantable(min_cap)) THEN NoMem(str)
    ELSE Out(Resize(str.data, min_cap), str.len, min_cap, 1)

\* realloc(p, 0) in strsafe_trim: zero is one of "null" (null result, block
\* kept), "freed" (null result, block released), "block" (an empty block)
ReallocZero == {"null", "freed", "block"}

strsafe_trim(str, ok, zero) ==
    IF str.len = 0 THEN
        IF str.data = FREED THEN Fault(str, "freed") ELSE Out(NULL, str.len, 0, 1)
    ELSE IF str.data = FREED THEN Fault(str, "freed")
    ELSE LET n == Wrap(str.len + 1)
         IN  IF n = 0 THEN
                 CASE zero = "null"  -> Keep(str, 1)
                   [] zero = "freed" -> Out(FREED, str.len, str.cap, 1)
                   [] zero = "block" -> Out(<<>>, str.len, 0, 1)
             ELSE IF ~(ok /\ Grantable(n)) THEN [Keep(str, 1) EXCEPT !.oom = TRUE]
             ELSE Out(Resize(str.data, n), str.len, n, 1)

(***************************************************************************)
(* Assignment                                                              *)
(***************************************************************************)
strsafe_set(dst, src, ok) ==
    LET src_len == Len(src)
        e == strsafe_ensure_capacity(dst, Wrap(src_len + 1), ok)
    IN  IF e.fault # "none" \/ e.ret = 0 THEN e
        ELSE LET d == memcpy(e.data, 0, Lit(src), 0, src_len + 1)
             IN  IF d = OOB THEN Fault(dst, "bounds")
                 ELSE Out(d, src_len, e.cap, 1)

(***************************************************************************)
(* Search                                                                  *)
(***************************************************************************)
cstr_find(haystack, needle) ==
    LET f == ReadFault(haystack.data, 0)
    IN  IF f # "none" THEN Fault(haystack, f)
        ELSE Keep(haystack, strstr(haystack.data, 0, needle))

strsafe_find(haystack, needle) ==
    LET f == ReadFault(haystack.data, 0)
        g == ReadFault(needle.data, 0)
    IN  IF f # "none" THEN Fault(haystack, f)
        ELSE IF g # "none" THEN Fault(haystack, g)
        ELSE Keep(haystack, strstr(haystack.data, 0, CStr(needle.data, 0)))

cstr_find_from_pos(haystack, needle, pos) ==
    IF pos >= haystack.len THEN Keep(haystack, -1)
    ELSE LET f == ReadFault(haystack.data, pos)
         IN  IF f # "none" THEN Fault(haystack, f)
             ELSE Keep(haystack, strstr(haystack.data, pos, needle))

strsafe_find_from_pos(haystack, needle, pos) ==
    IF pos >= haystack.len THEN Keep(haystack, -1)
    ELSE LET f == ReadFault(haystack.data, pos)
             g == ReadFault(needle.data, 0)
         IN  IF f # "none" THEN Fault(haystack, f)
             ELSE IF g # "none" THEN Fault(haystack, g)
             ELSE Keep(haystack, strstr(haystack.data, pos, CStr(needle.data, 0)))

(***************************************************************************)
(* Comparison                                                              *)
(***************************************************************************)
\* strcmp(a->data, b) == 0
cstr_compare(a, b) ==
    LET f == ReadFault(a.data, 0)
    IN  IF f # "none" THEN Fault(a, f)
        ELSE Keep(a, IF CStr(a.data, 0) = b THEN 1 ELSE 0)

\* what passing pointer d to memcmp runs into
PointerFault(d) ==
    IF d = NULL THEN "null"
    ELSE IF d = FREED THEN "freed"
    ELSE IF d = OOB THEN "bounds"
    ELSE "none"

\* memcmp(a->data, b->data, a->len) == 0, after the test of the lengths.  With
\* a->len == 0 no byte is read, but a pointer that is not valid is undefined
\* all the same: lenient tells whether the build returns "equal" then
strsafe_compare(a, b, lenient) ==
    LET f == IF PointerFault(a.data) # "none" THEN PointerFault(a.data)
             ELSE PointerFault(b.data)
    IN  IF a.len # b.len THEN Keep(a, 0)
        ELSE IF f # "none" THEN
            IF a.len = 0 /\ lenient THEN Keep(a, 1) ELSE Fault(a, f)
        ELSE IF a.len > Len(a.data) \/ a.len > Len(b.data) THEN Fault(a, "bounds")
        ELSE Keep(a, IF SubSeq(a.data, 1, a.len) = SubSeq(b.data, 1, a.len)
                     THEN 1 ELSE 0)

(***************************************************************************)
(* Counting                                                                *)
(***************************************************************************)

\* the loop of cstr_count / strsafe_count from p == d + off on, for a needle
\* that makes the cursor advance (step > 0)
RECURSIVE CountLoop(_, _, _, _)
CountLoop(d, off, needle, step) ==
    LET p == strstr(d, off, needle)
    IN  IF p < 0 THEN 0
        ELSE IF ReadFault(d, p + step) # "none" THEN -1
        ELSE LET rest == CountLoop(d, p + step, needle, step)
             IN  IF rest < 0 THEN -1 ELSE 1 + rest

\* the count loop as a call: with step == 0 strstr returns p itself for ever
\* ("hang"); a cursor moved past the terminator reads outside the string
CountCall(haystack, needle, step) ==
    LET f == ReadFault(haystack.data, 0)
    IN  IF f # "none" THEN Fault(haystack, f)
        ELSE IF step = 0 /\ strstr(haystack.data, 0, needle) >= 0
             THEN Fault(haystack, "hang")
        ELSE LET c == CountLoop(haystack.data, 0, needle, step)
             IN  IF c < 0 THEN Fault(haystack, "bounds") ELSE Keep(haystack, c)

cstr_count(haystack, needle) == CountCall(haystack, needle, Len(needle))

strsafe_count(haystack, needle) ==
    LET g == ReadFault(needle.data, 0)
    IN  IF g # "none" THEN Fault(haystack, g)
        ELSE CountCall(haystack, CStr(needle.data, 0), needle.len)

(***************************************************************************)
(* Replace                                                                 *)
(***************************************************************************)
\* the body shared by cstr_replace and strsafe_replace once the first match
\* is known to be at pos: new_str points at block nd and is new_len long
ReplaceAt(dst, pos, old_len, nd, new_len, ok) ==
    LET final_len == Wrap(dst.len - old_len + new_len)
        size      == Wrap(final_len + 1)
        tail      == Wrap(dst.len - pos - old_len)
        b1 == memcpy(malloc(size), 0, dst.data, 0, pos)
        b2 == memcpy(b1, pos, nd, 0, new_len)
        b3 == memcpy(b2, pos + new_len, dst.data, pos + old_len, tail)
        b4 == store(b3, final_len, 0)
    IN  IF ~(ok /\ Grantable(size)) THEN NoMem(dst)
        ELSE IF b4 = OOB THEN Fault(dst, "bounds")
        ELSE Out(b4, final_len, Wrap(final_len + 1), 1)

cstr_replace(dst, old_str, new_str, ok) ==
    LET found == cstr_find(dst, old_str)
    IN  IF found.fault # "none" THEN found
        ELSE IF found.ret < 0 THEN Keep(dst, 1)
        ELSE ReplaceAt(dst, found.ret, Len(old_str), Lit(new_str), Len(new_str), ok)

strsafe_replace(dst, old_str, new_str, ok) ==
    LET g == ReadFault(old_str.data, 0)
        found == cstr_find(dst, CStr(old_str.data, 0))
    IN  IF g # "none" THEN Fault(dst, g)
        ELSE IF found.fault # "none" THEN found
        ELSE IF found.ret < 0 THEN Keep(dst, 1)
        ELSE ReplaceAt(dst, found.ret, old_str.len, new_str.data, new_str.len, ok)

\* the scan-and-copy loop of replace_all: src and out are the offsets of the
\* read cursor in block d and of the write cursor in block buf; the result is
\* <<buf, out>> at the terminator of d, <<OOB, 0>> when an access leaves a block
RECURSIVE ReplaceLoop(_, _, _, _, _, _, _, _)
ReplaceLoop(d, src, buf, out, od, old_len, nd, new_len) ==
    IF src >= Len(d) \/ buf = OOB THEN <<OOB, 0>>
    ELSE IF d[src + 1] = 0 THEN <<buf, out>>
    ELSE IF strncmp0(d, src, SubSeq(od, 1, old_len))
         THEN ReplaceLoop(d, src + old_len, memcpy(buf, out, nd, 0, new_len),
                          out + new_len, od, old_len, nd, new_len)
         ELSE ReplaceLoop(d, src + 1, store(buf, out, d[src + 1]),
                          out + 1, od, old_len, nd, new_len)

\* the body shared by cstr_replace_all and strsafe_replace_all once count > 0
ReplaceAll(dst, count, od, old_len, nd, new_len, ok) ==
    LET final_len == Wrap(dst.len + Wrap(count * Wrap(new_len - old_len)))
        size      == Wrap(final_len + 1)
        r  == ReplaceLoop(dst.data, 0, malloc(size), 0, od, old_len, nd, new_len)
        b  == store(r[1], r[2], 0)
    IN  IF ~(ok /\ Grantable(size)) THEN NoMem(dst)
        ELSE IF b = OOB THEN Fault(dst, "bounds")
        ELSE Out(b, final_len, Wrap(final_len + 1), 1)

cstr_replace_all(dst, old_str, new_str, ok) ==
    LET c == cstr_count(dst, old_str)
    IN  IF c.fault # "none" THEN c
        ELSE IF c.ret = 0 THEN Keep(dst, 1)
        ELSE ReplaceAll(dst, c.ret, Lit(old_str), Len(old_str),
                        Lit(new_str), Len(new_str), ok)

strsafe_replace_all(dst, old_str, new_str, ok) ==
    LET c == strsafe_count(dst, old_str)
    IN  IF c.fault # "none" THEN c
        ELSE IF c.ret = 0 THEN Keep(dst, 1)
        ELSE ReplaceAll(dst, c.ret, old_str.data, old_str.len,
                        new_str.data, new_str.len, ok)

(***************************************************************************)
(* Remove                                                                  *)
(***************************************************************************)
\* the body shared by cstr_remove and strsafe_remove once the first match is
\* known to be at pos
RemoveAt(dst, pos, rem_len, ok, zero) ==
    LET d == memcpy(dst.data, pos, dst.data, pos + rem_len,
                    Wrap(dst.len - pos - rem_len + 1))
    IN  IF d = OOB THEN Fault(dst, "bounds")
        ELSE strsafe_trim(Str(d, Wrap(dst.len - rem_len), dst.cap), ok, zero)

cstr_remove(dst, str_to_remove, ok, zero) ==
    LET found == cstr_find(dst, str_to_remove)
    IN  IF found.fault # "none" THEN found
        ELSE IF found.ret < 0 THEN Keep(dst, 1)
        ELSE RemoveAt(dst, found.ret, Len(str_to_remove), ok, zero)

strsafe_remove(dst, str_to_remove, ok, zero) ==
    LET g == ReadFault(str_to_remove.data, 0)
        found == cstr_find(dst, CStr(str_to_remove.data, 0))
    IN  IF g # "none" THEN Fault(dst, g)
        ELSE IF found.fault # "none" THEN found
        ELSE IF found.ret < 0 THEN Keep(dst, 1)
        ELSE RemoveAt(dst, found.ret, str_to_remove.len, ok, zero)

\* the compaction loop of remove_all on block d: src is the read cursor, out
\* the write cursor; the result is <<d, out>> at the terminator, <<OOB, 0>>
\* when the read cursor leaves the block
RECURSIVE RemoveLoop(_, _, _, _, _)
RemoveLoop(d, src, out, rd, rem_len) ==
    IF src >= Len(d) \/ d = OOB THEN <<OOB, 0>>
    ELSE IF d[src + 1] = 0 THEN <<d, out>>
    ELSE IF strncmp0(d, src, SubSeq(rd, 1, rem_len))
         THEN RemoveLoop(d, src + rem_len, out, rd, rem_len)
         ELSE RemoveLoop(store(d, out, d[src + 1]), src + 1, out + 1, rd, rem_len)

\* the body shared by cstr_remove_all and strsafe_remove_all; with
\* rem_len == 0 the comparison always succeeds and the read cursor stays on
\* the first byte for ever unless that byte is the terminator ("hang")
RemoveAll(dst, rd, rem_len, ok, zero) ==
    IF dst.data = NULL THEN Fault(dst, "null")
    ELSE IF dst.data = FREED THEN Fault(dst, "freed")
    ELSE IF Len(dst.data) = 0 THEN Fault(dst, "bounds")
    ELSE IF rem_len = 0 /\ dst.data[1] # 0 THEN Fault(dst, "hang")
    ELSE LET r == RemoveLoop(dst.data, 0, 0, rd, rem_len)
             d == store(r[1], r[2], 0)
         IN  IF d = OOB THEN Fault(dst, "bounds")
             ELSE strsafe_trim(Str(d, r[2], dst.cap), ok, zero)

cstr_remove_all(dst, str_to_remove, ok, zero) ==
    RemoveAll(dst, Lit(str_to_remove), Len(str_to_remove), ok, zero)

strsafe_remove_all(dst, str_to_remove, ok, zero) ==
    RemoveAll(dst, str_to_remove.data, str_to_remove.len, ok, zero)

(***************************************************************************)
(* Append, insert, substring, copy                                         *)
(***************************************************************************)
cstr_append(dst, suffix, ok) ==
    LET suffix_len == Len(suffix)
        new_len == Wrap(dst.len + suffix_len)
        e == strsafe_ensure_capacity(dst, Wrap(new_len + 1), ok)
        d == memcpy(e.data, dst.len, Lit(suffix), 0, suffix_len + 1)
    IN  IF e.fault # "none" \/ e.ret = 0 THEN e
        ELSE IF d = OOB THEN Fault(dst, "bounds")
        ELSE Out(d, new_len, e.cap, 1)

strsafe_append(dst, suffix, ok) ==
    LET new_len == Wrap(dst.len + suffix.len)
        e == strsafe_ensure_capacity(dst, Wrap(new_len + 1), ok)
        d == store(memcpy(e.data, dst.len, suffix.data, 0, suffix.len), new_len, 0)
    IN  IF e.fault # "none" \/ e.ret = 0 THEN e
        ELSE IF d = OOB THEN Fault(dst, "bounds")
        ELSE Out(d, new_len, e.cap, 1)

\* total length of the arguments of appendv (first pass over the va_list)
RECURSIVE TotalLen(_, _)
TotalLen(list, k) ==
    IF k > Len(list) THEN 0 ELSE Wrap(list[k].len + TotalLen(list, k + 1))

\* second pass over the va_list: each argument is copied at data + len and
\* len advanced; the result is <<data, len>>
RECURSIVE CopyAll(_, _, _, _)
CopyAll(d, l, list, k) ==
    IF k > Len(list) THEN <<d, l>>
    ELSE CopyAll(memcpy(d, l, list[k].data, 0, list[k].len),
                 Wrap(l + list[k].len), list, k + 1)

\* the body shared by cstr_appendv and strsafe_appendv; list holds the
\* arguments before the terminating NULL, the first one included
AppendV(dst, list, ok) ==
    LET total_len == TotalLen(list, 1)
        e == strsafe_ensure_capacity(dst, Wrap(dst.len + total_len + 1), ok)
        r == CopyAll(e.data, dst.len, list, 1)
        d == store(r[1], r[2], 0)
    IN  IF e.fault # "none" \/ e.ret = 0 THEN e
        ELSE IF d = OOB THEN Fault(dst, "bounds")
        ELSE Out(d, r[2], e.cap, 1)

\* the arguments are C strings; their lengths are taken with strlen
cstr_appendv(dst, list, ok) ==
    AppendV(dst, [k \in 1..Len(list) |-> AsStr(list[k])], ok)

strsafe_appendv(dst, list, ok) == AppendV(dst, list, ok)

strsafe_insert(dst, pos, ins, ok) ==
    LET new_len == Wrap(dst.len + ins.len)
        e  == strsafe_ensure_capacity(dst, Wrap(new_len + 1), ok)
        d1 == memcpy(e.data, pos + ins.len, e.data, pos, Wrap(dst.len - pos + 1))
        d2 == memcpy(d1, pos, ins.data, 0, ins.len)
    IN  IF pos > dst.len THEN Keep(dst, 0)
        ELSE IF e.fault # "none" \/ e.ret = 0 THEN e
        ELSE IF d2 = OOB THEN Fault(dst, "bounds")
        ELSE Out(d2, new_len, e.cap, 1)

strsafe_substr(sub_string, pos, len, ok) ==
    LET actual_len == IF Wrap(pos + len) > sub_string.len
                      THEN sub_string.len - pos ELSE len
        size == Wrap(actual_len + 1)
        b == store(memcpy(malloc(size), 0, sub_string.data, pos, actual_len),
                   actual_len, 0)
    IN  IF pos >= sub_string.len THEN strsafe_free(sub_string)
        ELSE IF ~(ok /\ Grantable(size)) THEN NoMem(sub_string)
        ELSE IF sub_string.data = FREED THEN Fault(sub_string, "freed")
        ELSE IF b = OOB THEN Fault(sub_string, "bounds")
        ELSE Out(b, actual_len, Wrap(actual_len + 1), 1)

strsafe_copy(dst, src, ok) ==
    LET e == strsafe_ensure_capacity(dst, Wrap(src.len + 1), ok)
        d == memcpy(e.data, 0, src.data, 0, src.len + 1)
    IN  IF e.fault # "none" \/ e.ret = 0 THEN e
        ELSE IF d = OOB THEN Fault(dst, "bounds")
        ELSE Out(d, src.len, e.cap, 1)

(***************************************************************************)
(* Split                                                                   *)
(***************************************************************************)
\* the segment holding the n bytes of d from offset start
Segment(d, start, n) ==
    Str([i \in 1..(n + 1) |-> IF i <= n THEN d[start + i] ELSE 0], n, n + 1)

\* the loop of split from start on, then the last segment; delim_len > 0
RECURSIVE SplitLoop(_, _, _, _)
SplitLoop(d, start, delim, delim_len) ==
    LET end == strstr(d, start, delim)
    IN  IF end < 0 THEN <<Segment(d, start, strlen(d, start))>>
        ELSE <<Segment(d, start, end - start)>>
             \o SplitLoop(d, end + delim_len, delim, delim_len)

\* the body shared by cstr_split and strsafe_split.  An empty delimiter is
\* found at start for ever ("hang"); a failed realloc or malloc (~ok) is
\* written through without a check ("null")
Split(src, delim, delim_len, ok) ==
    LET f == ReadFault(src.data, 0)
    IN  IF f # "none" THEN Fault(src, f)
        ELSE IF delim_len = 0 THEN Fault(src, "hang")
        ELSE IF ~ok THEN [Fault(src, "null") EXCEPT !.oom = TRUE]
        ELSE [Keep(src, 1) EXCEPT
                !.parts = SplitLoop(src.data, 0, delim, delim_len)]

cstr_split(src, delim, ok) == Split(src, delim, Len(delim), ok)

strsafe_split(src, delim, ok) ==
    LET g == ReadFault(delim.data, 0)
    IN  IF g # "none" THEN Fault(src, g)
        ELSE Split(src, CStr(delim.data, 0), delim.len, ok)

(***************************************************************************)
(* The state machine                                                       *)
(***************************************************************************)
NoCall ==
    [op |-> "none", a |-> <<>>, b |-> <<>>, list |-> <<>>, n |-> 0, m |-> 0,
     pre |-> strsafe_init, ret |-> 0, oom |-> FALSE, parts |-> <<>>]

\* the ownership model at rest: no block, no string, no array
Idle ==
    /\ heap = <<>>
    /\ source = strsafe_init
    /\ dest = strsafe_init
    /\ parts = <<>>

Init ==
    /\ s = strsafe_init
    /\ fault = "none"
    /\ last = NoCall
    /\ Idle

\* positions and lengths passed to the calls that take one: up to the longest
\* content the heap can hold, so past the end of every shorter one
Positions == 0..(HeapMax - 1)
Lengths == (0..(HeapMax - 1)) \cup {SIZE_MAX}

\* a call can be made: no call before it had undefined behaviour, and the run
\* has not traced one yet
Ready == fault = "none" /\ last.op = "none"

\* the call `op` with arguments a, b, list, n, m and outcome r: the string
\* becomes what the call leaves, its bytes not yet written taking any value
Call(op, a, b, list, n, m, r) ==
    /\ \E res \in {r} :
         /\ \E g \in [IndAt(res.data) -> Byte] :
              s' = Str(Resolve(res.data, g), res.len, res.cap)
         /\ fault' = res.fault
         /\ \E traced \in BOOLEAN :
              last' = IF traced
                      THEN [op |-> op, a |-> a, b |-> b, list |-> list,
                            n |-> n, m |-> m, pre |-> s, ret |-> res.ret,
                            oom |-> res.oom, parts |-> res.parts]
                      ELSE NoCall
    /\ UNCHANGED own

Do_strsafe_free ==
    /\ Ready
    /\ Call("strsafe_free", <<>>, <<>>, <<>>, 0, 0, strsafe_free(s))

Do_strsafe_ensure_capacity ==
    /\ Ready
    /\ \E min_cap \in 0..(HeapMax + 1), ok \in BOOLEAN :
        Call("strsafe_ensure_capacity", <<>>, <<>>, <<>>, min_cap, 0,
             strsafe_ensure_capacity(s, min_cap, ok))

Do_strsafe_trim ==
    /\ Ready
    /\ \E ok \in BOOLEAN, zero \in ReallocZero :
        Call("strsafe_trim", <<>>, <<>>, <<>>, 0, 0, strsafe_trim(s, ok, zero))

Do_strsafe_set ==
    /\ Ready
    /\ \E src \in Args, ok \in BOOLEAN :
        Call("strsafe_set", src, <<>>, <<>>, 0, 0, strsafe_set(s, src, ok))

Do_strsafe_copy ==
    /\ Ready
    /\ \E src \in Args, ok \in BOOLEAN :
        Call("strsafe_copy", src, <<>>, <<>>, 0, 0,
             strsafe_copy(s, AsStr(src), ok))

Do_cstr_find ==
    /\ Ready
    /\ \E needle \in Args :
        Call("cstr_find", needle, <<>>, <<>>, 0, 0, cstr_find(s, needle))

Do_strsafe_find ==
    /\ Ready
    /\ \E needle \in Args :
        Call("strsafe_find", needle, <<>>, <<>>, 0, 0,
             strsafe_find(s, AsStr(needle)))

Do_cstr_find_from_pos ==
    /\ Ready
    /\ \E needle \in Args, pos \in Positions :
        Call("cstr_find_from_pos", needle, <<>>, <<>>, pos, 0,
             cstr_find_from_pos(s, needle, pos))

Do_strsafe_find_from_pos ==
    /\ Ready
    /\ \E needle \in Args, pos \in Positions :
        Call("strsafe_find_from_pos", needle, <<>>, <<>>, pos, 0,
             strsafe_find_from_pos(s, AsStr(needle), pos))

Do_cstr_compare ==
    /\ Ready
    /\ \E b \in Args :
        Call("cstr_compare", b, <<>>, <<>>, 0, 0, cstr_compare(s, b))

Do_strsafe_compare ==
    /\ Ready
    /\ \E b \in Args, lenient \in BOOLEAN :
        Call("strsafe_compare", b, <<>>, <<>>, 0, 0,
             strsafe_compare(s, AsStr(b), lenient))

Do_cstr_count ==
    /\ Ready
    /\ \E needle \in Args :
        Call("cstr_count", needle, <<>>, <<>>, 0, 0, cstr_count(s, needle))

Do_strsafe_count ==
    /\ Ready
    /\ \E needle \in Args :
        Call("strsafe_count", needle, <<>>, <<>>, 0, 0,
             strsafe_count(s, AsStr(needle)))

Do_cstr_replace ==
    /\ Ready
    /\ \E old_str \in Args, new_str \in News, ok \in BOOLEAN :
        Call("cstr_replace", old_str, new_str, <<>>, 0, 0,
             cstr_replace(s, old_str, new_str, ok))

Do_strsafe_replace ==
    /\ Ready
    /\ \E old_str \in Args, new_str \in News, ok \in BOOLEAN :
        Call("strsafe_replace", old_str, new_str, <<>>, 0, 0,
             strsafe_replace(s, AsStr(old_str), AsStr(new_str), ok))

Do_cstr_replace_all ==
    /\ Ready
    /\ \E old_str \in Args, new_str \in News, ok \in BOOLEAN :
        Call("cstr_replace_all", old_str, new_str, <<>>, 0, 0,
             cstr_replace_all(s, old_str, new_str, ok))

Do_strsafe_replace_all ==
    /\ Ready
    /\ \E old_str \in Args, new_str \in News, ok \in BOOLEAN :
        Call("strsafe_replace_all", old_str, new_str, <<>>, 0, 0,
             strsafe_replace_all(s, AsStr(old_str), AsStr(new_str), ok))

Do_cstr_remove ==
    /\ Ready
    /\ \E x \in Args, ok \in BOOLEAN, zero \in ReallocZero :
        Call("cstr_remove", x, <<>>, <<>>, 0, 0, cstr_remove(s, x, ok, zero))

Do_strsafe_remove ==
    /\ Ready
    /\ \E x \in Args, ok \in BOOLEAN, zero \in ReallocZero :
        Call("strsafe_remove", x, <<>>, <<>>, 0, 0,
             strsafe_remove(s, AsStr(x), ok, zero))

Do_cstr_remove_all ==
    /\ Ready
    /\ \E x \in Args, ok \in BOOLEAN, zero \in ReallocZero :
        Call("cstr_remove_all", x, <<>>, <<>>, 0, 0,
             cstr_remove_all(s, x, ok, zero))

Do_strsafe_remove_all ==
    /\ Ready
    /\ \E x \in Args, ok \in BOOLEAN, zero \in ReallocZero :
        Call("strsafe_remove_all", x, <<>>, <<>>, 0, 0,
             strsafe_remove_all(s, AsStr(x), ok, zero))

Do_cstr_append ==
    /\ Ready
    /\ \E suffix \in Args, ok \in BOOLEAN :
        Call("cstr_append", suffix, <<>>, <<>>, 0, 0, cstr_append(s, suffix, ok))

Do_strsafe_append ==
    /\ Ready
    /\ \E suffix \in Args, ok \in BOOLEAN :
        Call("strsafe_append", suffix, <<>>, <<>>, 0, 0,
             strsafe_append(s, AsStr(suffix), ok))

Do_cstr_appendv ==
    /\ Ready
    /\ \E list \in ArgLists, ok \in BOOLEAN :
        Call("cstr_appendv", <<>>, <<>>, list, 0, 0, cstr_appendv(s, list, ok))

Do_strsafe_appendv ==
    /\ Ready
    /\ \E list \in ArgLists, ok \in BOOLEAN :
        Call("strsafe_appendv", <<>>, <<>>, list, 0, 0,
             strsafe_appendv(s, [k \in 1..Len(list) |-> AsStr(list[k])], ok))

Do_strsafe_insert ==
    /\ Ready
    /\ \E ins \in Args, pos \in Positions, ok \in BOOLEAN :
        Call("strsafe_insert", ins, <<>>, <<>>, pos, 0,
             strsafe_insert(s, pos, AsStr(ins), ok))

Do_strsafe_substr ==
    /\ Ready
    /\ \E pos \in Positions, len \in Lengths, ok \in BOOLEAN :
        Call("strsafe_substr", <<>>, <<>>, <<>>, pos, len,
             strsafe_substr(s, pos, len, ok))

Do_cstr_split ==
    /\ Ready
    /\ \E delim \in Args, ok \in BOOLEAN :
        Call("cstr_split", delim, <<>>, <<>>, 0, 0, cstr_split(s, delim, ok))

Do_strsafe_split ==
    /\ Ready
    /\ \E delim \in Args, ok \in BOOLEAN :
        Call("strsafe_split", delim, <<>>, <<>>, 0, 0,
             strsafe_split(s, AsStr(delim), ok))

Next ==
    \/ Do_strsafe_free
    \/ Do_strsafe_ensure_capacity
    \/ Do_strsafe_trim
    \/ Do_strsafe_set
    \/ Do_strsafe_copy
    \/ Do_cstr_find
    \/ Do_strsafe_find
    \/ Do_cstr_find_from_pos
    \/ Do_strsafe_find_from_pos
    \/ Do_cstr_compare
    \/ Do_strsafe_compare
    \/ Do_cstr_count
    \/ Do_strsafe_count
    \/ Do_cstr_replace
    \/ Do_strsafe_replace
    \/ Do_cstr_replace_all
    \/ Do_strsafe_replace_all
    \/ Do_cstr_remove
    \/ Do_strsafe_remove
    \/ Do_cstr_remove_all
    \/ Do_strsafe_remove_all
    \/ Do_cstr_append
    \/ Do_strsafe_append
    \/ Do_cstr_appendv
    \/ Do_strsafe_appendv
    \/ Do_strsafe_insert
    \/ Do_strsafe_substr
    \/ Do_cstr_split
    \/ Do_strsafe_split

Spec == Init /\ [][Next]_vars

(***************************************************************************)
(* The older header src/StrSafe.h (str_ functions): str_trim, str_count    *)
(* and str_count_str, applied once to a string drawn from the strings its  *)
(* constructors leave.  Its StrSafe has the fields data, length, capacity. *)
(***************************************************************************)
\* longest content of a string drawn as an input
MaxOldLen == 6

\* the bytes of those strings: ' ', '\t', '\n', '\r', 'h', 'i'
OldChars == {32, 9, 10, 13, 104, 105}

OldStrings == UNION {[1..k -> OldChars] : k \in 0..MaxOldLen}

\* the needles counted: "", "h", "  "
OldNeedles == {<<>>, <<104>>, <<32, 32>>}

\* the values a byte of fresh memory is given in the inputs
OldJunk == {0, 32, 104}

OldStr(d, l, c) == [data |-> d, length |-> l, capacity |-> c]

\* what a call leaves and returns
OldOut(str, r, f) == [str |-> str, ret |-> r, fault |-> f]

\* str_init(str, capacity) that succeeds, capacity > 0
str_init(capacity) == OldStr(store(malloc(capacity), 0, 0), 0, capacity)

\* str_ensure_capacity that succeeds
str_ensure_capacity(str, required_capacity) ==
    LET new_capacity == required_capacity + 1
    IN  IF required_capacity + 1 <= str.capacity THEN str
        ELSE OldStr(Resize(str.data, new_capacity), str.length, new_capacity)

\* str_fit; ok tells whether its realloc succeeds
str_fit(str, ok) ==
    LET fit_size == str.length + 1
    IN  IF str.data = NULL \/ ~ok THEN str
        ELSE OldStr(Resize(str.data, fit_size), str.length, fit_size)

str_free == OldStr(NULL, 0, 0)

\* str_set that succeeds
str_set(destination_string, string_to_set) ==
    LET len == Len(string_to_set)
        e == str_ensure_capacity(destination_string, len)
    IN  OldStr(memcpy(e.data, 0, Lit(string_to_set), 0, len + 1), len, e.capacity)

is_space(ch) == ch = 32 \/ ch = 9 \/ ch = 10 \/ ch = 13

\* while (start < str->length && is_space(str->data[start])) ++start;
RECURSIVE TrimStart(_, _, _)
TrimStart(d, length, start) ==
    IF start < length /\ is_space(d[start + 1])
    THEN TrimStart(d, length, start + 1) ELSE start

\* while (end > start && is_space(str->data[end - 1])) --end;
RECURSIVE TrimEnd(_, _, _)
TrimEnd(d, start, end) ==
    IF end > start /\ is_space(d[end])
    THEN TrimEnd(d, start, end - 1) ELSE end

str_trim(str, ok) ==
    IF str.data = NULL \/ str.length = 0 THEN OldOut(str, 0, "none")
    ELSE IF str.length > Len(str.data) THEN OldOut(str, 0, "bounds")
    ELSE LET start   == TrimStart(str.data, str.length, 0)
             end     == TrimEnd(str.data, start, str.length)
             new_len == end - start
             moved   == IF start > 0 /\ new_len > 0
                        THEN memcpy(str.data, 0, str.data, start, new_len)
                        ELSE str.data
             d       == store(moved, new_len, 0)
         IN  IF d = OOB THEN OldOut(str, 0, "bounds")
             ELSE OldOut(str_fit(OldStr(d, new_len, str.capacity), ok), 0, "none")

str_count(source_string, what_is_counted) ==
    IF what_is_counted = <<>> \/ source_string.data = NULL
    THEN OldOut(source_string, 0, "none")
    ELSE LET f == ReadFault(source_string.data, 0)
             c == CountLoop(source_string.data, 0, what_is_counted,
                            Len(what_is_counted))
         IN  IF f # "none" THEN OldOut(source_string, 0, f)
             ELSE OldOut(source_string, c, "none")

\* the loop searches from source_string->data every time: once the needle is
\* found it is found for ever ("hang")
str_count_str(source_string, what_is_counted) ==
    IF what_is_counted.data = NULL THEN OldOut(source_string, 0, "none")
    ELSE LET f == ReadFault(source_string.data, 0)
         IN  IF f # "none" THEN OldOut(source_string, 0, f)
             ELSE IF strstr(source_string.data, 0,
                            CStr(what_is_counted.data, 0)) >= 0
             THEN OldOut(source_string, 0, "hang")
             ELSE OldOut(source_string, 0, "none")

\* the strings the constructors leave without content, before their fresh
\* bytes have a value: a released one, an initialised one, and a released one
\* given a buffer again by str_ensure_capacity
OldRaw ==
    {str_free, str_init(1), str_init(2)}
    \cup {str_ensure_capacity(str_free, n) : n \in 0..1}

\* the input is one of those, its fresh bytes taking any value, or a string
\* that was set
InitOld ==
    /\ \/ \E x \in OldRaw : \E g \in [IndAt(x.data) -> OldJunk] :
            s = OldStr(Resolve(x.data, g), x.length, x.capacity)
       \/ \E a \in OldStrings : s = str_set(str_init(1), a)
    /\ fault = "none"
    /\ last = NoCall
    /\ Idle

\* the call `op` with argument a and outcome r, made once
CallOld(op, a, r) ==
    /\ s' = r.str
    /\ fault' = r.fault
    /\ last' = [NoCall EXCEPT !.op = op, !.a = a, !.pre = s, !.ret = r.ret]
    /\ UNCHANGED own

Do_str_trim ==
    /\ Ready
    /\ \E ok \in BOOLEAN :
        CallOld("str_trim", <<>>, str_trim(s, ok))

Do_str_count ==
    /\ Ready
    /\ \E what_is_counted \in OldNeedles :
        CallOld("str_count", what_is_counted, str_count(s, what_is_counted))

Do_str_count_str ==
    /\ Ready
    /\ \E what_is_counted \in OldNeedles :
        CallOld("str_count_str", what_is_counted,
                str_count_str(s, str_set(str_init(1), what_is_counted)))

NextOld ==
    \/ Do_str_trim
    \/ Do_str_count
    \/ Do_str_count_str

SpecOld == InitOld /\ [][NextOld]_vars

(***************************************************************************)
(* Ownership: a source, a destination and the array a split returned, in   *)
(* one heap.  A pointer is an address, 0 for NULL; heap[a] is the block at *)
(* address a (the bytes of a buffer, or the StrSafe elements of an array)  *)
(* or Unused.  The calls are the ones above, made on the block a string    *)
(* points at.                                                              *)
(***************************************************************************)
\* most blocks allocated at one time
MaxBlocks == 5

Addrs == 1..MaxBlocks

\* what heap holds at an address: nothing, the bytes of a buffer, or the
\* StrSafe elements of an array
Unused == [kind |-> "unused", bytes |-> <<>>, elems |-> <<>>]

Buffer(b) == [kind |-> "buffer", bytes |-> b, elems |-> <<>>]

Array(e) == [kind |-> "array", bytes |-> <<>>, elems |-> e]

\* StrSafe_array result = { 0 }
NoArray == [arr |-> 0, array_size |-> 0]

\* the C strings the strings are set to ("a", "aba") and the delimiter ("b")
OwnArgs == {<<1>>, <<1, 2, 1>>}
OwnDelim == <<2>>

FreeAddrs(h) == {a \in Addrs : h[a].kind = "unused"}

\* the free addresses in the order the allocator hands them out
RECURSIVE Ascending(_)
Ascending(F) ==
    IF F = {} THEN <<>> ELSE <<SetMin(F)>> \o Ascending(F \ {SetMin(F)})

\* the string x of heap h with its block in the place of its pointer
View(h, x) ==
    Str(IF x.data = 0 THEN NULL
        ELSE IF h[x.data].kind = "unused" THEN FREED
        ELSE h[x.data].bytes,
        x.len, x.cap)

\* free(p)
Release(h, p) == IF p = 0 THEN h ELSE [h EXCEPT ![p] = Unused]

\* whether an allocation for string x can succeed: realloc can keep its
\* block where it is, a new block needs a free address
Room(h, x) == x.data # 0 \/ FreeAddrs(h) # {}

\* where the buffer of x can be after a call with outcome r: where it was,
\* or, when the capacity changed (realloc), at the next free address
Places(h, x, r) ==
    IF r.cap = x.cap THEN {x.data}
    ELSE ({x.data} \ {0})
         \cup (IF FreeAddrs(h) = {} THEN {} ELSE {SetMin(FreeAddrs(h))})

\* the heap and the string after a call on x with outcome r, the buffer at `at`
Settle(h, x, r, at) ==
    IF r.data = NULL
    THEN [heap |-> Release(h, x.data), str |-> Str(0, r.len, r.cap)]
    ELSE [heap |-> [Release(h, x.data) EXCEPT ![at] = Buffer(r.data)],
          str  |-> Str(at, r.len, r.cap)]

\* the elements of the array
Segs == IF parts.arr = 0 THEN <<>> ELSE heap[parts.arr].elems

\* the strings a call can be made on: the source, the destination and the
\* elements of the array
Name(who, j) == [who |-> who, j |-> j]

Strings(p) ==
    {Name("source", 0), Name("dest", 0)}
    \cup {Name("seg", k) : k \in 1..p.array_size}

\* string x in the state (h, sr, de, p)
GetIn(h, sr, de, p, x) ==
    IF x.who = "source" THEN sr
    ELSE IF x.who = "dest" THEN de
    ELSE h[p.arr].elems[x.j]

Get(x) == GetIn(heap, source, dest, parts, x)

NoOwnCall == [op |-> "none", target |-> Name("none", 0), oom |-> FALSE]

InitOwn ==
    /\ heap = [a \in Addrs |-> Unused]
    /\ source = Str(0, 0, 0)
    /\ dest = Str(0, 0, 0)
    /\ parts = NoArray
    /\ s = strsafe_init
    /\ fault = "none"
    /\ last = NoOwnCall

\* the record of the call `op` on x
Trace(op, x, oom) == [op |-> op, target |-> x, oom |-> oom]

\* the call `op` on string x with outcome r leaves st
OwnCall(op, x, r, st) ==
    /\ fault' = r.fault
    /\ last' = Trace(op, x, r.oom)
    /\ IF r.fault # "none" THEN UNCHANGED own
       ELSE CASE x.who = "source" ->
                    /\ source' = st.str
                    /\ heap' = st.heap
                    /\ UNCHANGED <<dest, parts>>
              [] x.who = "dest" ->
                    /\ dest' = st.str
                    /\ heap' = st.heap
                    /\ UNCHANGED <<source, parts>>
              [] x.who = "seg" ->
                    /\ heap' = [st.heap EXCEPT ![parts.arr].elems[x.j] = st.str]
                    /\ UNCHANGED <<source, dest, parts>>
    /\ UNCHANGED s

Own_strsafe_set ==
    /\ fault = "none"
    /\ \E x \in Strings(parts), a \in OwnArgs, ok \in BOOLEAN :
         \E r \in {strsafe_set(View(heap, Get(x)), a, ok /\ Room(heap, Get(x)))} :
           \E at \in Places(heap, Get(x), r) :
             OwnCall("strsafe_set", x, r, Settle(heap, Get(x), r, at))

Own_strsafe_copy ==
    /\ fault = "none"
    /\ \E ok \in BOOLEAN :
         \E r \in {strsafe_copy(View(heap, dest), View(heap, source),
                                ok /\ Room(heap, dest))} :
           \E at \in Places(heap, dest, r) :
             OwnCall("strsafe_copy", Name("dest", 0), r,
                     Settle(heap, dest, r, at))

Own_strsafe_free ==
    /\ fault = "none"
    /\ \E x \in Strings(parts) :
         \E r \in {strsafe_free(View(heap, Get(x)))} :
           OwnCall("strsafe_free", x, r, Settle(heap, Get(x), r, 0))

\* the array and the segments of a split, at the free addresses
SplitBlocks(h, segs, at) ==
    [a \in Addrs |->
        IF a = at[1]
        THEN Array([k \in 1..Len(segs) |->
                        Str(at[k + 1], segs[k].len, segs[k].cap)])
        ELSE IF \E k \in 1..Len(segs) : a = at[k + 1]
        THEN Buffer(segs[CHOOSE k \in 1..Len(segs) : a = at[k + 1]].data)
        ELSE h[a]]

\* parts = strsafe_split(&source, &delim), parts holding no array; without
\* the memory for the array and the segments the split writes through NULL
Own_strsafe_split ==
    /\ fault = "none"
    /\ parts.arr = 0
    /\ \E ok \in BOOLEAN :
         LET r    == strsafe_split(View(heap, source), AsStr(OwnDelim), TRUE)
             at   == Ascending(FreeAddrs(heap))
             fits == ok /\ Len(r.parts) + 1 <= Len(at)
         IN  /\ fault' = IF r.fault # "none" THEN r.fault
                         ELSE IF fits THEN "none" ELSE "null"
             /\ last' = Trace("strsafe_split", Name("source", 0),
                              r.fault = "none" /\ ~fits)
             /\ IF r.fault = "none" /\ fits
                THEN /\ heap' = SplitBlocks(heap, r.parts, at)
                     /\ parts' = [arr |-> at[1], array_size |-> Len(r.parts)]
                ELSE UNCHANGED <<heap, parts>>
             /\ UNCHANGED <<s, source, dest>>

\* the loop of strsafe_array_free from element i on: the heap it leaves, <<>>
\* when it releases a block that is not allocated
RECURSIVE FreeEach(_, _, _)
FreeEach(h, arr, i) ==
    IF i > Len(arr) THEN h
    ELSE IF arr[i].data # 0 /\ h[arr[i].data].kind = "unused" THEN <<>>
    ELSE FreeEach(Release(h, arr[i].data), arr, i + 1)

Own_strsafe_array_free ==
    /\ fault = "none"
    /\ LET h == FreeEach(heap, Segs, 1)
       IN  /\ fault' = IF h = <<>> THEN "freed" ELSE "none"
           /\ last' = Trace("strsafe_array_free", Name("array", 0), FALSE)
           /\ IF h = <<>> THEN UNCHANGED <<heap, parts>>
              ELSE /\ heap' = Release(h, parts.arr)
                   /\ parts' = NoArray
           /\ UNCHANGED <<s, source, dest>>

NextOwn ==
    \/ Own_strsafe_set
    \/ Own_strsafe_copy
    \/ Own_strsafe_free
    \/ Own_strsafe_split
    \/ Own_strsafe_array_free

SpecOwn == InitOwn /\ [][NextOwn]_vars

(***************************************************************************)
(* Reference definitions: what the operations are specified to compute, on *)
(* plain byte sequences                                                    *)
(***************************************************************************)
\* the first len bytes of the buffer, the logical content of the string
Content(str) ==
    IF IsBlock(str.data) /\ str.len <= Len(str.data)
    THEN SubSeq(str.data, 1, str.len) ELSE <<>>

\* the buffer is present, data[len] is the terminator and no byte before it is
Terminated(str) ==
    /\ IsBlock(str.data)
    /\ str.len < Len(str.data)
    /\ str.data[str.len + 1] = 0
    /\ \A i \in 1..str.len : str.data[i] # 0

\* the state of strsafe_init: no buffer, no length, no capacity
Empty(str) == str = strsafe_init

\* x occurs in c at offset i
OccursAt(c, x, i) ==
    /\ i + Len(x) <= Len(c)
    /\ SubSeq(c, i + 1, i + Len(x)) = x

\* smallest offset >= from at which x occurs in c, -1 when there is none
RefFind(c, x, from) ==
    LET at == {i \in from..Len(c) : OccursAt(c, x, i)}
    IN  IF at = {} THEN -1 ELSE SetMin(at)

\* c without its first n bytes
Drop(c, n) == SubSeq(c, n + 1, Len(c))

\* number of left-to-right non-overlapping occurrences of x (non-empty) in c
RECURSIVE RefCount(_, _)
RefCount(c, x) ==
    LET p == RefFind(c, x, 0)
    IN  IF p < 0 THEN 0 ELSE 1 + RefCount(Drop(c, p + Len(x)), x)

\* c with each of those occurrences of x replaced by y
RECURSIVE RefReplaceAll(_, _, _)
RefReplaceAll(c, x, y) ==
    LET p == RefFind(c, x, 0)
    IN  IF p < 0 THEN c
        ELSE SubSeq(c, 1, p) \o y \o RefReplaceAll(Drop(c, p + Len(x)), x, y)

\* c with its first occurrence of x replaced by y
RefReplaceFirst(c, x, y) ==
    LET p == RefFind(c, x, 0)
    IN  IF p < 0 THEN c ELSE SubSeq(c, 1, p) \o y \o Drop(c, p + Len(x))

\* the segments joined with d between consecutive ones
RECURSIVE Join(_, _)
Join(segs, d) ==
    IF Len(segs) = 0 THEN <<>>
    ELSE IF Len(segs) = 1 THEN segs[1]
    ELSE segs[1] \o d \o Join(Tail(segs), d)

\* the traced call is one of ops and no allocation failed in it
Did(ops) == last.op \in ops /\ ~last.oom

\* the traced call ran to its end and returned r
Returned(r) == fault = "none" /\ last.ret = r

(***************************************************************************)
(* C1 - C3: the buffer invariants                                          *)
(***************************************************************************)
\* C1: whenever the buffer is present, data[len] is the terminator and none of
\* the first len bytes is, in every state the calls lead to from strsafe_init
\* (a failed call leaves the string as it was, so the states reached by
\* successful calls only are the same).
C1_TerminatedAtLen ==
    (fault = "none" /\ s.data # NULL) => Terminated(s)

\* C2: in every state reachable from strsafe_init, cap == 0 or cap >= len + 1,
\* and the buffer is absent exactly when cap == 0.
C2_CapacityHoldsLength ==
    fault = "none" =>
        /\ s.cap = 0 \/ s.cap >= s.len + 1
        /\ s.data = NULL <=> s.cap = 0

\* the calls C3 names
AllocatingCalls ==
    {"strsafe_set", "strsafe_copy", "cstr_append", "strsafe_append",
     "cstr_appendv", "strsafe_appendv", "strsafe_insert", "strsafe_substr",
     "cstr_replace", "strsafe_replace", "cstr_replace_all",
     "strsafe_replace_all"}

\* C3: when an allocation fails inside one of these calls, the call returns
\* its failure value (NULL / false) and data, len and cap are what they were
\* before the call.
C3_FailedAllocationLeavesTarget ==
    (last.op \in AllocatingCalls /\ last.oom) =>
        /\ fault = "none"
        /\ last.ret = 0
        /\ s = last.pre

\* a growing append on a string holding content that did not get its buffer
C3_Witness ==
    /\ last.op = "cstr_append"
    /\ last.oom
    /\ last.pre.len > 0

(***************************************************************************)
(* C4 - C10: what the calls compute                                        *)
(***************************************************************************)
PreContent == Content(last.pre)

\* the contents of the segments a split returned
SegContents == [k \in 1..Len(last.parts) |-> Content(last.parts[k])]

\* C4: for every target and every non-empty old, replace_all returns success
\* and leaves the content with new substituted for each left-to-right
\* non-overlapping match of old and every other byte copied, all writes
\* staying inside the new buffer; when old does not occur the target is
\* unchanged.
C4_ReplaceAllSubstitutes ==
    (Did({"cstr_replace_all", "strsafe_replace_all"}) /\ last.a # <<>>) =>
        /\ Returned(1)
        /\ Content(s) = RefReplaceAll(PreContent, last.a, last.b)
        /\ RefFind(PreContent, last.a, 0) < 0 => s = last.pre

\* C5: after replace_all with non-empty old, len is
\* length(s) + count(s, old) * (length(new) - length(old)), it is the number
\* of bytes written before the terminator, and cap == len + 1.
C5_ReplaceAllLength ==
    (Did({"cstr_replace_all", "strsafe_replace_all"}) /\ last.a # <<>>) =>
        /\ Returned(1)
        /\ s.len = Len(PreContent)
                    + RefCount(PreContent, last.a) * (Len(last.b) - Len(last.a))
        /\ ReadFault(s.data, 0) = "none"
        /\ strlen(s.data, 0) = s.len
        /\ s.cap = s.len + 1

\* C6: for every target and every non-empty substring, remove_all leaves
\* exactly the bytes outside the left-to-right non-overlapping matches, in
\* order, len being their number; afterwards cap == len + 1, or the buffer is
\* released when len == 0.
C6_RemoveAllCompacts ==
    (last.op \in {"cstr_remove_all", "strsafe_remove_all"} /\ last.a # <<>>) =>
        /\ Returned(1)
        /\ Content(s) = RefReplaceAll(PreContent, last.a, <<>>)
        /\ s.len = Len(RefReplaceAll(PreContent, last.a, <<>>))
        /\ IF s.len = 0 THEN s.data = NULL /\ s.cap = 0 ELSE s.cap = s.len + 1

\* C7: for every source and non-empty delimiter, the segments split returns,
\* joined with the delimiter, reproduce the source, and there are
\* count(s, d) + 1 of them.
C7_SplitLaw ==
    (Did({"cstr_split", "strsafe_split"}) /\ last.a # <<>>) =>
        /\ Returned(1)
        /\ Len(last.parts) = RefCount(PreContent, last.a) + 1
        /\ Join(SegContents, last.a) = PreContent
        /\ \A k \in 1..Len(last.parts) : Terminated(last.parts[k])

\* C8: for every haystack with a present buffer and every non-empty needle,
\* count returns the number of left-to-right non-overlapping matches of the
\* needle in the content and leaves the haystack unchanged.
C8_CountNonOverlapping ==
    (Did({"cstr_count", "strsafe_count"}) /\ last.a # <<>>
        /\ IsBlock(last.pre.data)) =>
        /\ Returned(RefCount(PreContent, last.a))
        /\ s = last.pre

\* C9: for every haystack with a present buffer, non-empty needle and
\* start_pos, find_from returns the smallest offset >= start_pos at which the
\* needle occurs in the content, -1 when there is none or start_pos >= len;
\* find returns what find_from returns for start_pos 0.
C9_FindFirstOffset ==
    (last.a # <<>> /\ IsBlock(last.pre.data)) =>
        /\ Did({"cstr_find_from_pos", "strsafe_find_from_pos"}) =>
              Returned(RefFind(PreContent, last.a, last.n))
        /\ Did({"cstr_find", "strsafe_find"}) =>
              /\ Returned(RefFind(PreContent, last.a, 0))
              /\ last.ret = cstr_find_from_pos(last.pre, last.a, 0).ret

\* C10: when old first occurs in the target at offset p, replace_first leaves
\* target[0..p) + new + target[p+len(old)..], len == old len - len(old) +
\* len(new) and cap == len + 1; when old does not occur, data, len and cap
\* are unchanged and success is returned.
C10_ReplaceFirst ==
    Did({"cstr_replace", "strsafe_replace"}) =>
        /\ Returned(1)
        /\ IF RefFind(PreContent, last.a, 0) >= 0
           THEN /\ Content(s) = RefReplaceFirst(PreContent, last.a, last.b)
                /\ s.len = last.pre.len - Len(last.a) + Len(last.b)
                /\ s.cap = s.len + 1
                /\ Terminated(s)
           ELSE s = last.pre

(***************************************************************************)
(* C11 - C20: relations between the calls, boundaries                      *)
(***************************************************************************)
\* what replace_first with the empty string as replacement leaves and returns
\* on the target of the traced remove_first, its allocation succeeding
RemoveAsReplace ==
    IF last.op = "cstr_remove"
    THEN cstr_replace(last.pre, last.a, <<>>, TRUE)
    ELSE strsafe_replace(last.pre, AsStr(last.a), AsStr(<<>>), TRUE)

\* C11: for every target and substring, remove_first leaves the content and
\* the len that replace_first(target, substring, "") leaves on the same
\* target, and leaves content and len as they were when the substring does
\* not occur.
C11_RemoveFirstAsReplace ==
    last.op \in {"cstr_remove", "strsafe_remove"} =>
        /\ fault = "none"
        /\ RemoveAsReplace.fault = "none"
        /\ Content(s) = Content(RemoveAsReplace)
        /\ s.len = RemoveAsReplace.len
        /\ RefFind(PreContent, last.a, 0) < 0 =>
              Content(s) = PreContent /\ s.len = last.pre.len

\* the string holds content: its buffer is present and len is not 0
HoldsContent(str) == IsBlock(str.data) /\ str.len > 0

\* C12: strsafe_insert with pos > len returns false and leaves data, len and
\* cap unchanged; with pos <= len on a string holding content it yields
\* dst[0..pos) + ins + dst[pos..), len == old len + ins.len, terminated at
\* data[len].  (ins is an argument the call only reads: the operator has no
\* way to change it.)
C12_InsertAt ==
    last.op = "strsafe_insert" =>
        IF last.n > last.pre.len
        THEN fault = "none" /\ last.ret = 0 /\ s = last.pre
        ELSE (HoldsContent(last.pre) /\ ~last.oom) =>
                /\ Returned(1)
                /\ Content(s) = SubSeq(PreContent, 1, last.n) \o last.a
                                    \o Drop(PreContent, last.n)
                /\ s.len = last.pre.len + Len(last.a)
                /\ Terminated(s)

\* the number of bytes strsafe_substr(s, pos, n) is to extract when pos < len
SubstrLen == IF last.m < last.pre.len - last.n
             THEN last.m ELSE last.pre.len - last.n

\* C13: strsafe_substr(s, pos, n) with pos >= len leaves the empty string and
\* does not fail; otherwise it leaves exactly the min(n, len - pos) bytes of s
\* from pos on, len being that number and cap == len + 1, for every n up to
\* SIZE_MAX.
C13_SubstrExact ==
    (last.op = "strsafe_substr" /\ ~last.oom) =>
        /\ Returned(1)
        /\ IF last.n >= last.pre.len
           THEN Content(s) = <<>> /\ s.len = 0
           ELSE /\ Content(s) = SubSeq(PreContent, last.n + 1, last.n + SubstrLen)
                /\ s.len = SubstrLen
                /\ s.cap = s.len + 1

\* the suffixes of an argument list one after the other
RECURSIVE Flatten(_)
Flatten(list) ==
    IF Len(list) = 0 THEN <<>> ELSE Head(list) \o Flatten(Tail(list))

\* what the single append of the traced appendv's family leaves when it is
\* applied to str for each suffix of list in order, no allocation failing
RECURSIVE AppendEach(_, _)
AppendEach(str, list) ==
    IF Len(list) = 0 \/ str.fault # "none" THEN str
    ELSE LET now == Str(str.data, str.len, str.cap)
         IN  AppendEach(IF last.op = "cstr_appendv"
                        THEN cstr_append(now, Head(list), TRUE)
                        ELSE strsafe_append(now, AsStr(Head(list)), TRUE),
                        Tail(list))

\* C14: appendv(dst, s1, ..., sn) yields the old content followed by s1 .. sn
\* in order, len == old len + the sum of their lengths, terminated at
\* data[len]: the content and len that n single appends leave; and the
\* capacity is either what it was or what the one growth made it.
C14_AppendvAsAppends ==
    Did({"cstr_appendv", "strsafe_appendv"}) =>
        /\ Returned(1)
        /\ Content(s) = PreContent \o Flatten(last.list)
        /\ s.len = last.pre.len + Len(Flatten(last.list))
        /\ Terminated(s)
        /\ AppendEach(Keep(last.pre, 1), last.list).fault = "none"
        /\ Content(AppendEach(Keep(last.pre, 1), last.list)) = Content(s)
        /\ AppendEach(Keep(last.pre, 1), last.list).len = s.len
        /\ s.cap \in {last.pre.cap, s.len + 1}

\* C15: count, replace_all and remove_all called with an empty needle on a
\* target holding non-empty content return (no cursor that never advances)
\* and leave the content and len of the target unchanged.
C15_EmptyNeedleReturns ==
    (/\ last.op \in {"cstr_count", "strsafe_count", "cstr_replace_all",
                     "strsafe_replace_all", "cstr_remove_all",
                     "strsafe_remove_all"}
     /\ last.a = <<>>
     /\ Terminated(last.pre)
     /\ last.pre.len > 0) =>
        /\ fault = "none"
        /\ Content(s) = PreContent
        /\ s.len = last.pre.len

\* C16: split called with an empty delimiter returns to the caller (it is
\* rejected: no unbounded number of segments, no split between every byte).
C16_EmptyDelimiterRejected ==
    (last.op \in {"cstr_split", "strsafe_split"} /\ last.a = <<>>
        /\ Terminated(last.pre)) =>
        /\ fault = "none"
        /\ Len(last.parts) <= 1

\* what a second remove_all of the traced one's argument leaves on the string
\* the traced one left
RemoveAllAgain(ok, zero) ==
    IF last.op = "cstr_remove_all"
    THEN cstr_remove_all(s, last.a, ok, zero)
    ELSE strsafe_remove_all(s, AsStr(last.a), ok, zero)

\* C17: for every string s and every x, remove_all(s, x) applied twice yields
\* the content and len it yields applied once.  Stated here for the strings
\* holding terminated content, the non-empty x and a first application that
\* leaves content, where both applications return.
C17_RemoveAllIdempotent ==
    (/\ last.op \in {"cstr_remove_all", "strsafe_remove_all"}
     /\ Terminated(last.pre)
     /\ last.a # <<>>
     /\ s.len > 0) =>
        \A ok \in BOOLEAN, zero \in ReallocZero :
            /\ RemoveAllAgain(ok, zero).fault = "none"
            /\ Content(RemoveAllAgain(ok, zero)) = Content(s)
            /\ RemoveAllAgain(ok, zero).len = s.len

\* what count of x, of the traced replace_all's family, returns on the string
\* the traced replace_all left
CountAfter(x) ==
    IF last.op = "cstr_replace_all"
    THEN cstr_count(s, x) ELSE strsafe_count(s, AsStr(x))

\* the traced call is a replace_all that returned success, of a non-empty old
\* by a new that does not contain old, on a string holding terminated content
ReplacedAllByForeign ==
    /\ Did({"cstr_replace_all", "strsafe_replace_all"})
    /\ Terminated(last.pre)
    /\ fault = "none"
    /\ last.a # <<>>
    /\ RefFind(last.b, last.a, 0) < 0

\* C18: for all s, non-empty old and new that does not contain old,
\* count(replace_all(s, old, new), old) == 0.  Stated here for the strings
\* holding terminated content.
C18_NoOldAfterReplaceAll ==
    ReplacedAllByForeign =>
        /\ CountAfter(last.a).fault = "none"
        /\ CountAfter(last.a).ret = 0

\* C19: for all s, non-empty old and new that does not contain old,
\* count(replace_all(s, old, new), new) returns, and what it returns is
\* >= count(s, old).  Stated here for the strings holding terminated content.
C19_NewCountedAfterReplaceAll ==
    ReplacedAllByForeign =>
        /\ CountAfter(last.b).fault = "none"
        /\ CountAfter(last.b).ret >= cstr_count(last.pre, last.a).ret

\* what strsafe_append of the traced insert's argument leaves on the same
\* string, its allocation succeeding
AppendInstead == strsafe_append(last.pre, AsStr(last.a), TRUE)

\* C20: for every string s reachable from strsafe_init, the one without a
\* buffer included, and every x, strsafe_insert(s, length(s), x) leaves the
\* content, the len and the terminator at data[len] that strsafe_append(s, x)
\* leaves.
C20_InsertAtEndAsAppend ==
    (last.op = "strsafe_insert" /\ last.n = last.pre.len /\ ~last.oom) =>
        /\ Returned(1)
        /\ AppendInstead.fault = "none"
        /\ Content(s) = Content(AppendInstead)
        /\ s.len = AppendInstead.len
        /\ AppendInstead.data[AppendInstead.len + 1] = 0
        /\ s.data[s.len + 1] = 0

(***************************************************************************)
(* C21 - C28: capacity, release, ownership, the empty state                *)
(***************************************************************************)
\* C23: strsafe_trim never changes the content or the len of the string; when
\* len == 0 it releases the buffer and sets cap to 0; when len > 0 and the
\* reallocation succeeds, cap == len + 1; when the reallocation fails, data,
\* len and cap are left as they were.
C23_TrimFitsCapacity ==
    last.op = "strsafe_trim" =>
        /\ fault = "none"
        /\ s.len = last.pre.len
        /\ Content(s) = Content(last.pre)
        /\ IF last.pre.len = 0 THEN s.data = NULL /\ s.cap = 0
           ELSE IF last.oom THEN s = last.pre
           ELSE IsBlock(s.data) /\ s.cap = s.len + 1

\* C24: strsafe_ensure_capacity(s, m) changes nothing and returns true when
\* cap >= m; otherwise, when the allocation succeeds, cap == m exactly and the
\* len and the content are kept; when it fails, false is returned and data,
\* len and cap are unchanged.
C24_EnsureCapacityExact ==
    last.op = "strsafe_ensure_capacity" =>
        IF last.pre.cap >= last.n
        THEN Returned(1) /\ s = last.pre
        ELSE IF last.oom
        THEN Returned(0) /\ s = last.pre
        ELSE /\ Returned(1)
             /\ s.cap = last.n
             /\ s.len = last.pre.len
             /\ Content(s) = Content(last.pre)

\* the calls that search, count, and rewrite the string in place
Finds ==
    {"cstr_find", "strsafe_find", "cstr_find_from_pos", "strsafe_find_from_pos"}

Counts == {"cstr_count", "strsafe_count"}

Rewrites ==
    {"cstr_replace", "strsafe_replace", "cstr_replace_all",
     "strsafe_replace_all", "cstr_remove", "strsafe_remove", "cstr_remove_all",
     "strsafe_remove_all"}

Splits == {"cstr_split", "strsafe_split"}

\* C25: when an allocation made during cstr_split / strsafe_split fails (the
\* growth of the segment array or the buffer of a segment), the split does not
\* write through the null result: it runs to its end and reports the failure
\* to its caller.  Stated on sources holding terminated content, which split
\* can read.
C25_SplitAllocationFailureReported ==
    (/\ last.op \in Splits
     /\ last.oom
     /\ HoldsContent(last.pre)
     /\ Terminated(last.pre)) =>
        /\ fault = "none"
        /\ last.ret = 0

\* a string holding "a", and strsafe_copy into it from the string s
CopyFromS == strsafe_copy(AsStr(<<1>>), s, TRUE)

\* C27: every call can be made on the string in the empty state (data absent,
\* len 0, cap 0), as strsafe_init, strsafe_free, remove, remove_all and
\* strsafe_substr leave it, without reading through the absent buffer: with a
\* non-empty argument find returns not found, count returns 0, replace and
\* remove leave the string empty, split returns one empty segment; and
\* strsafe_copy from a string a call has left in the empty state copies no
\* content.
C27_EmptyStateUsable ==
    /\ (last.op # "none" /\ Empty(last.pre)) =>
            /\ fault # "null"
            /\ (fault = "none" /\ last.a # <<>>) =>
                    /\ last.op \in Finds => last.ret = -1
                    /\ last.op \in Counts => last.ret = 0
                    /\ last.op \in Rewrites => Empty(s)
                    /\ last.op \in Splits => SegContents = << <<>> >>
    /\ (last.op # "none" /\ fault = "none" /\ Empty(s)) =>
            /\ CopyFromS.fault = "none"
            /\ CopyFromS.len = 0

(***************************************************************************)
(* C26, C28: the older header, under SpecOld                               *)
(***************************************************************************)
\* the whitespace bytes C26 names: space, tab, newline, carriage return
Whitespace == {32, 9, 10, 13}

\* the first length bytes of a string of the older header
OldContent(str) ==
    IF IsBlock(str.data) /\ str.length <= Len(str.data)
    THEN SubSeq(str.data, 1, str.length) ELSE <<>>

\* c without its leading and its trailing whitespace bytes
RefTrim(c) ==
    LET kept == {i \in 1..Len(c) : c[i] \notin Whitespace}
    IN  IF kept = {} THEN <<>>
        ELSE SubSeq(c, SetMin(kept), CHOOSE i \in kept : \A j \in kept : j <= i)

\* C26: str_trim removes every leading and every trailing whitespace byte
\* (space, tab, newline, carriage return) and nothing else: the bytes left
\* keep their order, length becomes the trimmed length and data[length] is
\* the terminator; a string of whitespace only becomes empty.
C26_TrimStripsWhitespace ==
    (last.op = "str_trim" /\ IsBlock(last.pre.data)) =>
        /\ fault = "none"
        /\ OldContent(s) = RefTrim(OldContent(last.pre))
        /\ s.length = Len(RefTrim(OldContent(last.pre)))
        /\ s.length < Len(s.data)
        /\ s.data[s.length + 1] = 0

\* C28: str_count_str returns, for every source string and every non-empty
\* needle, and returns the number str_count returns for the same source and
\* the bytes of the needle.  Stated on sources whose data[length] is the
\* terminator.
C28_CountStrAsCount ==
    (/\ last.op = "str_count_str"
     /\ last.a # <<>>
     /\ IsBlock(last.pre.data)
     /\ last.pre.data[last.pre.length + 1] = 0) =>
        /\ fault = "none"
        /\ str_count(last.pre, last.a).fault = "none"
        /\ last.ret = str_count(last.pre, last.a).ret

\* the calls that never read the string between data and data + len when
\* len == 0, and so can be made on the empty state
EmptySafeCalls ==
    {"strsafe_free", "strsafe_ensure_capacity", "strsafe_trim", "strsafe_set",
     "strsafe_copy", "cstr_find_from_pos", "strsafe_find_from_pos",
     "cstr_append", "strsafe_append", "cstr_appendv", "strsafe_appendv",
     "strsafe_insert", "strsafe_substr"}

(***************************************************************************)
(* C21, C22: ownership and release, under SpecOwn                          *)
(***************************************************************************)
\* string x points at a buffer no other string points at, or at none
OwnsBufferIn(h, sr, de, p, x) ==
    LET d == GetIn(h, sr, de, p, x).data
    IN  d # 0 =>
            /\ h[d].kind = "buffer"
            /\ \A y \in Strings(p) \ {x} : GetIn(h, sr, de, p, y).data # d

\* the content of string x
ContentIn(h, sr, de, p, x) == Content(View(h, GetIn(h, sr, de, p, x)))

\* a step of the ownership model: when it is a copy or a split made under
\* `assumed`, the call returns, the source is as it was, every string owns its
\* buffer and every segment of the split has cap == len + 1; whatever the call,
\* no string other than its target changes content or len
OwnStep(assumed) ==
    /\ (last'.op \in {"strsafe_copy", "strsafe_split"} /\ assumed) =>
            /\ fault' = "none"
            /\ source' = source
            /\ View(heap', source') = View(heap, source)
            /\ \A x \in Strings(parts') :
                   OwnsBufferIn(heap', source', dest', parts', x)
            /\ last'.op = "strsafe_split" =>
                   \A k \in 1..parts'.array_size :
                       LET seg == heap'[parts'.arr].elems[k]
                       IN  seg.data # 0 /\ seg.cap = seg.len + 1
    /\ \A x \in Strings(parts) \cap Strings(parts') :
           x # last'.target =>
               /\ ContentIn(heap', source', dest', parts', x)
                      = ContentIn(heap, source, dest, parts, x)
               /\ GetIn(heap', source', dest', parts', x).len
                      = GetIn(heap, source, dest, parts, x).len

\* C21: after strsafe_copy(dst, src) and after split(src, d) the destination
\* and every segment own a buffer distinct from the source's: the source is
\* unchanged by the call, each split segment has cap == len + 1, and a later
\* mutation or release of one of these strings changes neither the content nor
\* the len of any other.
C21_OwnBuffers == [][OwnStep(TRUE)]_vars

\* C22: strsafe_free resets a string to data absent, len 0, cap 0, and a second
\* strsafe_free on it changes nothing; no buffer is released twice.  (The
\* array half of the claim is OnSplit_ReleasedOnce, under SpecOwn.)
C22_FreeResets ==
    last.op = "strsafe_free" =>
        /\ fault = "none"
        /\ Empty(s)
        /\ strsafe_free(s) = Keep(s, 1)

(***************************************************************************)
(* The same properties on targets that hold terminated content             *)
(* (Terminated).  There the calls compute what C4 - C12, C14 and C20 say,  *)
(* up to the capacity left by a replace_all that finds nothing and by a    *)
(* remove_all whose shrinking realloc fails: those claims fail only on the *)
(* string without a buffer and on the buffer strsafe_ensure_capacity /     *)
(* strsafe_insert leave unterminated.  C13 holds there while pos + n does  *)
(* not wrap, C19 while the replacement is not empty.                       *)
(***************************************************************************)
\* the string is as strsafe_init leaves it, or holds terminated content in a
\* buffer of cap bytes
WellFormed(str) ==
    \/ Empty(str)
    \/ Terminated(str) /\ str.cap = Len(str.data) /\ str.cap >= str.len + 1

\* every call but strsafe_ensure_capacity, and strsafe_insert into the string
\* without a buffer, leaves a well-formed string well-formed
OnContent_WellFormedKept ==
    (/\ WellFormed(last.pre)
     /\ fault = "none"
     /\ last.op \notin {"none", "strsafe_ensure_capacity"}
     /\ last.op = "strsafe_insert" => ~Empty(last.pre)) => WellFormed(s)

OnContent_ReplaceAll ==
    Terminated(last.pre) =>
        /\ C4_ReplaceAllSubstitutes
        /\ (Did({"cstr_replace_all", "strsafe_replace_all"}) /\ last.a # <<>>) =>
              /\ s.len = Len(PreContent) + RefCount(PreContent, last.a)
                                             * (Len(last.b) - Len(last.a))
              /\ Terminated(s)
              /\ RefCount(PreContent, last.a) > 0 => s.cap = s.len + 1

OnContent_RemoveAll ==
    (Terminated(last.pre) /\ last.a # <<>>
        /\ last.op \in {"cstr_remove_all", "strsafe_remove_all"}) =>
        /\ Returned(1)
        /\ Content(s) = RefReplaceAll(PreContent, last.a, <<>>)
        /\ s.len = Len(RefReplaceAll(PreContent, last.a, <<>>))
        /\ IF s.len = 0 THEN Empty(s)
           ELSE IF last.oom THEN s.cap = last.pre.cap
           ELSE s.cap = s.len + 1

OnContent_RemoveFirst ==
    Terminated(last.pre) => C11_RemoveFirstAsReplace

OnContent_Insert ==
    Terminated(last.pre) => C12_InsertAt

\* strsafe_substr does what C13 says whenever pos + n does not exceed SIZE_MAX
OnContent_Substr ==
    (Terminated(last.pre) /\ last.n + last.m <= SIZE_MAX) => C13_SubstrExact

OnContent_Appendv ==
    WellFormed(last.pre) => C14_AppendvAsAppends

\* C19 holds whenever the replacement is not empty
OnContent_CountAfterReplaceAll ==
    last.b # <<>> => C19_NewCountedAfterReplaceAll

OnContent_InsertAtEnd ==
    Terminated(last.pre) => C20_InsertAtEndAsAppend

OnContent_TrimEnsureCapacity ==
    WellFormed(last.pre) =>
        /\ C23_TrimFitsCapacity
        /\ C24_EnsureCapacityExact

\* the empty state: the calls of EmptySafeCalls run to their end on it, every
\* other call reads through the absent buffer (strsafe_compare when the
\* other string is empty too and memcmp of length 0 rejects a null pointer)
OnEmpty_SafeCalls ==
    (Empty(last.pre) /\ last.op # "none") =>
        IF last.op \in EmptySafeCalls THEN fault = "none"
        ELSE \/ fault = "null"
             \/ last.op = "strsafe_compare"

\* which calls produce the empty state from a string holding content
OnContent_EmptyProducers ==
    (Terminated(last.pre) /\ fault = "none" /\ Empty(s)) =>
        \/ last.op \in {"strsafe_free", "strsafe_substr"}
        \/ last.op \in {"cstr_remove", "strsafe_remove", "cstr_remove_all",
                        "strsafe_remove_all"} /\ ~last.oom
        \/ last.op = "strsafe_trim" /\ last.pre.len = 0

\* the older header: on every string whose data[length] is the terminator
\* str_trim does what C26 says; "  hi  " becomes "hi"
OnContent_OldTrim ==
    (/\ last.op = "str_trim"
     /\ IsBlock(last.pre.data)
     /\ last.pre.data[last.pre.length + 1] = 0) =>
        /\ C26_TrimStripsWhitespace
        /\ OldContent(last.pre) = <<32, 32, 104, 105, 32, 32>> =>
                OldContent(s) = <<104, 105>> /\ s.length = 2

\* the older header: str_count_str returns 0 when the needle does not occur in
\* a terminated source and never returns when it does
OnContent_OldCountStr ==
    last.op = "str_count_str" =>
        /\ (/\ IsBlock(last.pre.data)
            /\ last.pre.data[last.pre.length + 1] = 0
            /\ last.a # <<>>
            /\ str_count(last.pre, last.a).ret = 0) =>
                fault = "none" /\ last.ret = 0
        /\ str_count(last.pre, last.a).ret > 0 => fault = "hang"

\* C21 where the source holds content and the split gets its memory
OnContent_OwnBuffers ==
    [][OwnStep(source.data # 0
               /\ ~(last'.op = "strsafe_split" /\ last'.oom))]_vars

\* C22 on a string whose buffer has not been released behind its back
OnContent_FreeResets ==
    (last.op = "strsafe_free" /\ last.pre.data # FREED) =>
        /\ fault = "none"
        /\ Empty(s)
        /\ strsafe_free(s) = Keep(s, 1)

\* the strings pointing at address a
Holders(a) == {x \in Strings(parts) : Get(x).data = a}

\* C22, the array: over every sequence of set, copy, free, split and
\* array_free, on the source, the destination and the segments, no block is
\* released twice, every allocated buffer is the buffer of exactly one string
\* (none stays allocated without an owner), the array block is allocated as
\* long as parts holds it, strsafe_free leaves its target in the empty state
\* and strsafe_array_free leaves no array and no segment
OnSplit_ReleasedOnce ==
    /\ fault # "freed"
    /\ \A a \in Addrs :
           CASE heap[a].kind = "buffer" -> Cardinality(Holders(a)) = 1
             [] heap[a].kind = "array"  -> parts.arr = a /\ Holders(a) = {}
             [] OTHER                   -> parts.arr # a /\ Holders(a) = {}
    /\ (last.op = "strsafe_free" /\ fault = "none") =>
           Get(last.target) = Str(0, 0, 0)
    /\ (last.op = "strsafe_array_free" /\ fault = "none") =>
           /\ parts = NoArray
           /\ \A a \in Addrs :
                  heap[a].kind # "unused" => a \in {source.data, dest.data}

OnContent_SplitCountFind ==
    Terminated(last.pre) =>
        /\ C7_SplitLaw
        /\ C8_CountNonOverlapping
        /\ C9_FindFirstOffset
        /\ C10_ReplaceFirst

====
